---- MODULE Spec2Model ----
(***************************************************************************)
(* A model of the interview coach: the time-expiring cache around the      *)
(* intelligence profiler, the question and feedback generators of          *)
(* ai_helpers.py, and the session wizard of app.py.                        *)
(*                                                                         *)
(* A Python str is a sequence of one-character strings, so that lower(),   *)
(* strip(), startswith() and the `in` substring test are computed as       *)
(* Python computes them.  A Python value is a record tagged with its type. *)
(* The two external services (the profiler and the completion API) are     *)
(* inputs: each call draws its outcome from a finite sample.               *)
(***************************************************************************)
EXTENDS Integers, Sequences, FiniteSets, TLC

VARIABLES
    cache,          \* timed_lru_cache: key -> stored result
    timestamps,     \* timed_lru_cache: key -> time the result was stored
    now,            \* datetime.now(), in seconds
    stored,         \* history: key -> [at, value] of the call that last invoked the profiler
    lastCall,       \* history: the most recent call of the wrapped function
    lastOp,         \* history: the operation that ran last
    lastFeedback,   \* history: the most recent call of generate_feedback
    session_active, \* st.session_state.session_active
    question_num,   \* st.session_state.question_num
    questions,      \* st.session_state.questions
    answers,        \* st.session_state.answers
    feedbacks,      \* st.session_state.feedbacks
    job_title,      \* st.session_state.job_title
    difficulty,     \* st.session_state.difficulty
    displayed,      \* the question the last run of the script rendered, <<>> if none
    lastSubmit      \* history: the most recent click on Submit Answer

cacheVars == <<cache, timestamps, now>>
historyVars == <<stored, lastCall, lastOp, lastFeedback, lastSubmit>>
sessionVars ==
    <<session_active, question_num, questions, answers, feedbacks, job_title, difficulty,
      displayed>>
vars == <<cacheVars, historyVars, sessionVars>>

(***************************************************************************)
(* String literals of the source.                                          *)
(***************************************************************************)
\* Python str "junior"
JUNIOR ==
    <<"j", "u", "n", "i", "o", "r" >>

\* Python str "Mid"
MID ==
    <<"M", "i", "d" >>

\* Python str "senior"
SENIOR ==
    <<"s", "e", "n", "i", "o", "r" >>

\* Python str "easier"
EASIER ==
    <<"e", "a", "s", "i", "e", "r" >>

\* Python str "same"
SAME ==
    <<"s", "a", "m", "e" >>

\* Python str "harder"
HARDER ==
    <<"h", "a", "r", "d", "e", "r" >>

\* Python str "Sorry, I couldn't connect to the intelligence profiler."
SORRY_PROFILER ==
    <<"S", "o", "r", "r", "y", ",", " ", "I", " ", "c", "o", "u", "l", "d", "n", "'", "t", " ",
      "c", "o", "n", "n", "e", "c", "t", " ", "t", "o", " ", "t", "h", "e", " ", "i", "n", "t",
      "e", "l", "l", "i", "g", "e", "n", "c", "e", " ", "p", "r", "o", "f", "i", "l", "e", "r",
      "." >>

\* Python str "Sorry, I couldn't generate a question at this time."
SORRY_QUESTION ==
    <<"S", "o", "r", "r", "y", ",", " ", "I", " ", "c", "o", "u", "l", "d", "n", "'", "t", " ",
      "g", "e", "n", "e", "r", "a", "t", "e", " ", "a", " ", "q", "u", "e", "s", "t", "i", "o",
      "n", " ", "a", "t", " ", "t", "h", "i", "s", " ", "t", "i", "m", "e", "." >>

\* Python str "Sorry, I couldn't optimize the prompt via DoCoreAI."
SORRY_OPTIMIZE_QUESTION ==
    <<"S", "o", "r", "r", "y", ",", " ", "I", " ", "c", "o", "u", "l", "d", "n", "'", "t", " ",
      "o", "p", "t", "i", "m", "i", "z", "e", " ", "t", "h", "e", " ", "p", "r", "o", "m", "p",
      "t", " ", "v", "i", "a", " ", "D", "o", "C", "o", "r", "e", "A", "I", "." >>

\* Python str "Sorry, I couldn't generate feedback at this time."
SORRY_FEEDBACK ==
    <<"S", "o", "r", "r", "y", ",", " ", "I", " ", "c", "o", "u", "l", "d", "n", "'", "t", " ",
      "g", "e", "n", "e", "r", "a", "t", "e", " ", "f", "e", "e", "d", "b", "a", "c", "k", " ",
      "a", "t", " ", "t", "h", "i", "s", " ", "t", "i", "m", "e", "." >>

\* Python str "Sorry, couldn't optimize feedback prompt via DoCoreAI."
SORRY_OPTIMIZE_FEEDBACK ==
    <<"S", "o", "r", "r", "y", ",", " ", "c", "o", "u", "l", "d", "n", "'", "t", " ", "o", "p",
      "t", "i", "m", "i", "z", "e", " ", "f", "e", "e", "d", "b", "a", "c", "k", " ", "p", "r",
      "o", "m", "p", "t", " ", "v", "i", "a", " ", "D", "o", "C", "o", "r", "e", "A", "I", "." >>

\* Python str "No feedback provided."
NO_FEEDBACK ==
    <<"N", "o", " ", "f", "e", "e", "d", "b", "a", "c", "k", " ", "p", "r", "o", "v", "i", "d",
      "e", "d", "." >>

\* Python str "Okay, here's a question:"
PREFIX_OKAY ==
    <<"O", "k", "a", "y", ",", " ", "h", "e", "r", "e", "'", "s", " ", "a", " ", "q", "u", "e",
      "s", "t", "i", "o", "n", ":" >>

\* Python str "Here's one:"
PREFIX_ONE ==
    <<"H", "e", "r", "e", "'", "s", " ", "o", "n", "e", ":" >>

\* Python str "Here's a question:"
PREFIX_QUESTION ==
    <<"H", "e", "r", "e", "'", "s", " ", "a", " ", "q", "u", "e", "s", "t", "i", "o", "n", ":" >>

(***************************************************************************)
(* Sample texts: what the user types and what the services answer.         *)
(***************************************************************************)
\* Python str "What is a TTL?"
QUESTION_TTL ==
    <<"W", "h", "a", "t", " ", "i", "s", " ", "a", " ", "T", "T", "L", "?" >>

\* Python str "Explain LRU."
QUESTION_LRU ==
    <<"E", "x", "p", "l", "a", "i", "n", " ", "L", "R", "U", "." >>

\* Python str "Here's one: Explain LRU."
CONTENT_PREFIXED ==
    <<"H", "e", "r", "e", "'", "s", " ", "o", "n", "e", ":", " ", "E", "x", "p", "l", "a", "i",
      "n", " ", "L", "R", "U", "." >>

\* Python str "  What is a TTL?\n"
CONTENT_PADDED ==
    <<" ", " ", "W", "h", "a", "t", " ", "i", "s", " ", "a", " ", "T", "T", "L", "?", "\n" >>

\* Python str " \n"
CONTENT_BLANK ==
    <<" ", "\n" >>

\* Python str "dev"
JOB_DEV ==
    <<"d", "e", "v" >>

\* Python str "ok"
ANSWER_OK ==
    <<"o", "k" >>

\* Python str "Good answer."
GOOD_ANSWER ==
    <<"G", "o", "o", "d", " ", "a", "n", "s", "w", "e", "r", "." >>

\* Python str "X"
OPTIMIZED_X ==
    <<"X" >>

\* Python str "{\"optimized_response\": \"X\"}"
JSON_OPT_X ==
    <<"{", "\"", "o", "p", "t", "i", "m", "i", "z", "e", "d", "_", "r", "e", "s", "p", "o", "n",
      "s", "e", "\"", ":", " ", "\"", "X", "\"", "}" >>

\* Python str "[1]"
JSON_LIST ==
    <<"[", "1", "]" >>

\* Python str "not json"
TEXT_NOT_JSON ==
    <<"n", "o", "t", " ", "j", "s", "o", "n" >>

\* Python str "{\"feedback\": \"Good answer.\", \"recommendation\": \"harder\"}"
REPLY_HARDER ==
    <<"{", "\"", "f", "e", "e", "d", "b", "a", "c", "k", "\"", ":", " ", "\"", "G", "o", "o", "d",
      " ", "a", "n", "s", "w", "e", "r", ".", "\"", ",", " ", "\"", "r", "e", "c", "o", "m", "m",
      "e", "n", "d", "a", "t", "i", "o", "n", "\"", ":", " ", "\"", "h", "a", "r", "d", "e", "r",
      "\"", "}" >>

\* Python str "{\"feedback\": \"Good answer.\", \"recommendation\": \"HARDER\"}"
REPLY_HARDER_UPPER ==
    <<"{", "\"", "f", "e", "e", "d", "b", "a", "c", "k", "\"", ":", " ", "\"", "G", "o", "o", "d",
      " ", "a", "n", "s", "w", "e", "r", ".", "\"", ",", " ", "\"", "r", "e", "c", "o", "m", "m",
      "e", "n", "d", "a", "t", "i", "o", "n", "\"", ":", " ", "\"", "H", "A", "R", "D", "E", "R",
      "\"", "}" >>

\* Python str "{\"feedback\": \"Good answer.\", \"recommendation\": \"easier\"}"
REPLY_EASIER ==
    <<"{", "\"", "f", "e", "e", "d", "b", "a", "c", "k", "\"", ":", " ", "\"", "G", "o", "o", "d",
      " ", "a", "n", "s", "w", "e", "r", ".", "\"", ",", " ", "\"", "r", "e", "c", "o", "m", "m",
      "e", "n", "d", "a", "t", "i", "o", "n", "\"", ":", " ", "\"", "e", "a", "s", "i", "e", "r",
      "\"", "}" >>

\* Python str "{\"feedback\": \"Good answer.\", \"recommendation\": \"same\"}"
REPLY_SAME ==
    <<"{", "\"", "f", "e", "e", "d", "b", "a", "c", "k", "\"", ":", " ", "\"", "G", "o", "o", "d",
      " ", "a", "n", "s", "w", "e", "r", ".", "\"", ",", " ", "\"", "r", "e", "c", "o", "m", "m",
      "e", "n", "d", "a", "t", "i", "o", "n", "\"", ":", " ", "\"", "s", "a", "m", "e", "\"", "}" >>

\* Python str "{\"feedback\": \"Good answer.\", \"recommendation\": \"maybe\"}"
REPLY_MAYBE ==
    <<"{", "\"", "f", "e", "e", "d", "b", "a", "c", "k", "\"", ":", " ", "\"", "G", "o", "o", "d",
      " ", "a", "n", "s", "w", "e", "r", ".", "\"", ",", " ", "\"", "r", "e", "c", "o", "m", "m",
      "e", "n", "d", "a", "t", "i", "o", "n", "\"", ":", " ", "\"", "m", "a", "y", "b", "e", "\"",
      "}" >>

\* Python str "{\"feedback\": \"Good answer.\", \"recommendation\": \"Senior\"}"
REPLY_SENIOR ==
    <<"{", "\"", "f", "e", "e", "d", "b", "a", "c", "k", "\"", ":", " ", "\"", "G", "o", "o", "d",
      " ", "a", "n", "s", "w", "e", "r", ".", "\"", ",", " ", "\"", "r", "e", "c", "o", "m", "m",
      "e", "n", "d", "a", "t", "i", "o", "n", "\"", ":", " ", "\"", "S", "e", "n", "i", "o", "r",
      "\"", "}" >>

\* Python str "{\"feedback\": \"Good answer.\"}"
REPLY_NO_REC ==
    <<"{", "\"", "f", "e", "e", "d", "b", "a", "c", "k", "\"", ":", " ", "\"", "G", "o", "o", "d",
      " ", "a", "n", "s", "w", "e", "r", ".", "\"", "}" >>

\* Python str "{\"recommendation\": \"junior\"}"
REPLY_NO_FEEDBACK ==
    <<"{", "\"", "r", "e", "c", "o", "m", "m", "e", "n", "d", "a", "t", "i", "o", "n", "\"", ":",
      " ", "\"", "j", "u", "n", "i", "o", "r", "\"", "}" >>

\* Python str "{\"feedback\": \"Good answer.\", \"recommendation\": 2}"
REPLY_REC_INT ==
    <<"{", "\"", "f", "e", "e", "d", "b", "a", "c", "k", "\"", ":", " ", "\"", "G", "o", "o", "d",
      " ", "a", "n", "s", "w", "e", "r", ".", "\"", ",", " ", "\"", "r", "e", "c", "o", "m", "m",
      "e", "n", "d", "a", "t", "i", "o", "n", "\"", ":", " ", "2", "}" >>

\* Python str "{\"feedback\": \"Good answer.\", \"recommendation\": null}"
REPLY_REC_NULL ==
    <<"{", "\"", "f", "e", "e", "d", "b", "a", "c", "k", "\"", ":", " ", "\"", "G", "o", "o", "d",
      " ", "a", "n", "s", "w", "e", "r", ".", "\"", ",", " ", "\"", "r", "e", "c", "o", "m", "m",
      "e", "n", "d", "a", "t", "i", "o", "n", "\"", ":", " ", "n", "u", "l", "l", "}" >>

\* Python str "{\"feedback\": 7, \"recommendation\": \"junior\"}"
REPLY_FEEDBACK_INT ==
    <<"{", "\"", "f", "e", "e", "d", "b", "a", "c", "k", "\"", ":", " ", "7", ",", " ", "\"", "r",
      "e", "c", "o", "m", "m", "e", "n", "d", "a", "t", "i", "o", "n", "\"", ":", " ", "\"", "j",
      "u", "n", "i", "o", "r", "\"", "}" >>

\* Python str "Try an easier question."
TEXT_EASIER ==
    <<"T", "r", "y", " ", "a", "n", " ", "e", "a", "s", "i", "e", "r", " ", "q", "u", "e", "s",
      "t", "i", "o", "n", "." >>

\* Python str "Go HARDER next."
TEXT_HARDER_UPPER ==
    <<"G", "o", " ", "H", "A", "R", "D", "E", "R", " ", "n", "e", "x", "t", "." >>

\* Python str "Senior, not junior."
TEXT_SENIOR_JUNIOR ==
    <<"S", "e", "n", "i", "o", "r", ",", " ", "n", "o", "t", " ", "j", "u", "n", "i", "o", "r",
      "." >>

\* Python str "Mid is fine."
TEXT_MID ==
    <<"M", "i", "d", " ", "i", "s", " ", "f", "i", "n", "e", "." >>

\* Python str "HARDER"
UPPER_HARDER ==
    <<"H", "A", "R", "D", "E", "R" >>

\* Python str "Senior"
UPPER_SENIOR ==
    <<"S", "e", "n", "i", "o", "r" >>

\* Python str "maybe"
MAYBE ==
    <<"m", "a", "y", "b", "e" >>

(***************************************************************************)
(* Bounds and constants.                                                   *)
(***************************************************************************)
\* how many times the clock is advanced
MaxTicks == 4

CACHE_TTL == 3600

\* one advance of the clock: half a TTL, so that an entry is seen at the ages
\* 0, TTL/2, TTL (the boundary), 3*TTL/2, ...
TickSeconds == CACHE_TTL \div 2

TOTAL_QUESTIONS == 5

(***************************************************************************)
(* Python values.                                                          *)
(***************************************************************************)
PyNone == [type |-> "NoneType"]

PyStr(chars) == [type |-> "str", chars |-> chars]

PyInt(n) == [type |-> "int", int |-> n]

PyList(elems) == [type |-> "list", elems |-> elems]

PyDict(items) == [type |-> "dict", items |-> items]

EmptyItems == [k \in {} |-> PyNone]

\* bool(v)
Truthy(v) ==
    CASE v.type = "NoneType" -> FALSE
      [] v.type = "str" -> Len(v.chars) > 0
      [] v.type = "int" -> v.int # 0
      [] v.type = "list" -> Len(v.elems) > 0
      [] v.type = "dict" -> DOMAIN v.items # {}

\* d.get(key, default) of a dict d
DictGet(d, key, default) ==
    IF key \in DOMAIN d.items THEN d.items[key] ELSE default

(***************************************************************************)
(* str methods, on sequences of characters.                                *)
(***************************************************************************)
LowerChar(c) ==
    CASE c = "A" -> "a" [] c = "B" -> "b" [] c = "C" -> "c" [] c = "D" -> "d"
      [] c = "E" -> "e" [] c = "F" -> "f" [] c = "G" -> "g" [] c = "H" -> "h"
      [] c = "I" -> "i" [] c = "J" -> "j" [] c = "K" -> "k" [] c = "L" -> "l"
      [] c = "M" -> "m" [] c = "N" -> "n" [] c = "O" -> "o" [] c = "P" -> "p"
      [] c = "Q" -> "q" [] c = "R" -> "r" [] c = "S" -> "s" [] c = "T" -> "t"
      [] c = "U" -> "u" [] c = "V" -> "v" [] c = "W" -> "w" [] c = "X" -> "x"
      [] c = "Y" -> "y" [] c = "Z" -> "z" [] OTHER -> c

\* s.lower()
Lower(s) == [i \in 1..Len(s) |-> LowerChar(s[i])]

\* sub in s
Contains(sub, s) ==
    \E i \in 1..(Len(s) - Len(sub) + 1) : SubSeq(s, i, i + Len(sub) - 1) = sub

\* s.startswith(prefix)
StartsWith(s, prefix) ==
    Len(prefix) <= Len(s) /\ SubSeq(s, 1, Len(prefix)) = prefix

IsSpace(c) == c \in {" ", "\n", "\t", "\r"}

RECURSIVE LStrip(_)
LStrip(s) == IF s # <<>> /\ IsSpace(Head(s)) THEN LStrip(Tail(s)) ELSE s

RECURSIVE RStrip(_)
RStrip(s) ==
    IF s # <<>> /\ IsSpace(s[Len(s)]) THEN RStrip(SubSeq(s, 1, Len(s) - 1)) ELSE s

\* s.strip()
Strip(s) == RStrip(LStrip(s))

\* s in seq, for a list of str values
InList(v, seq) == \E i \in 1..Len(seq) : seq[i] = v

(***************************************************************************)
(* json.loads, on the texts of the sample: the documents below parse to    *)
(* the value beside them, every other sample text raises JSONDecodeError.  *)
(***************************************************************************)
JSON_DOCUMENTS ==
    { [text |-> JSON_OPT_X, value |-> PyDict([optimized_response |-> PyStr(OPTIMIZED_X)])],
      [text |-> JSON_LIST, value |-> PyList(<<PyInt(1)>>)],
      [text |-> REPLY_HARDER_UPPER,
       value |-> PyDict([feedback |-> PyStr(GOOD_ANSWER), recommendation |-> PyStr(UPPER_HARDER)])],
      [text |-> REPLY_HARDER,
       value |-> PyDict([feedback |-> PyStr(GOOD_ANSWER), recommendation |-> PyStr(HARDER)])],
      [text |-> REPLY_EASIER,
       value |-> PyDict([feedback |-> PyStr(GOOD_ANSWER), recommendation |-> PyStr(EASIER)])],
      [text |-> REPLY_SAME,
       value |-> PyDict([feedback |-> PyStr(GOOD_ANSWER), recommendation |-> PyStr(SAME)])],
      [text |-> REPLY_MAYBE,
       value |-> PyDict([feedback |-> PyStr(GOOD_ANSWER), recommendation |-> PyStr(MAYBE)])],
      [text |-> REPLY_SENIOR,
       value |-> PyDict([feedback |-> PyStr(GOOD_ANSWER), recommendation |-> PyStr(UPPER_SENIOR)])],
      [text |-> REPLY_NO_REC, value |-> PyDict([feedback |-> PyStr(GOOD_ANSWER)])],
      [text |-> REPLY_NO_FEEDBACK, value |-> PyDict([recommendation |-> PyStr(JUNIOR)])],
      [text |-> REPLY_REC_INT,
       value |-> PyDict([feedback |-> PyStr(GOOD_ANSWER), recommendation |-> PyInt(2)])],
      [text |-> REPLY_REC_NULL,
       value |-> PyDict([feedback |-> PyStr(GOOD_ANSWER), recommendation |-> PyNone])],
      [text |-> REPLY_FEEDBACK_INT,
       value |-> PyDict([feedback |-> PyInt(7), recommendation |-> PyStr(JUNIOR)])] }

\* json.loads(text): [exc |-> "", value |-> v], or [exc |-> "JSONDecodeError"]
json_loads(text) ==
    IF \E d \in JSON_DOCUMENTS : d.text = text
    THEN [exc |-> "", value |-> (CHOOSE d \in JSON_DOCUMENTS : d.text = text).value]
    ELSE [exc |-> "JSONDecodeError", value |-> PyNone]

(***************************************************************************)
(* ai_helpers.py                                                           *)
(***************************************************************************)
DIFFICULTY_LEVELS == <<PyStr(JUNIOR), PyStr(MID), PyStr(SENIOR)>>

DEFAULT_DIFFICULTY == PyStr(MID)

\* the recommendations the feedback prompt asks the model for
RECOMMENDATIONS == <<PyStr(EASIER), PyStr(SAME), PyStr(HARDER)>>

\* key = str(args) + str(kwargs): the positional arguments, no keyword arguments
CacheKey(raw_prompt, title) == <<raw_prompt, title>>

\* CacheLive with the comparison off by one: an entry of age CACHE_TTL still counts
CacheLiveInclusive(c, ts, t, key) ==
    key \in DOMAIN c /\ (t - ts[key]) <= CACHE_TTL

\* key in cache and (current_time - timestamps[key]).total_seconds() < seconds
CacheLive(c, ts, t, key) ==
    key \in DOMAIN c /\ (t - ts[key]) < CACHE_TTL

\* d[key] = value
Put(d, key, value) ==
    [k \in DOMAIN d \cup {key} |-> IF k = key THEN value ELSE d[k]]

\* wrapper(*args): `computed` is what func(*args) returns if it is invoked
Wrapper(c, ts, t, key, computed) ==
    IF CacheLive(c, ts, t, key)
    THEN [cache |-> c, timestamps |-> ts, result |-> c[key], invoked |-> FALSE]
    ELSE [cache |-> Put(c, key, computed),
          timestamps |-> Put(ts, key, t),
          result |-> computed, invoked |-> TRUE]

\* wrapper.clear_cache = lambda: cache.clear() and timestamps.clear()
\* cache.clear() returns None, which is falsy: `and` never evaluates its right side
WrapperClearCache(c, ts) ==
    LET cleared == PyNone
    IN  [cache |-> EmptyItems,
         timestamps |-> IF Truthy(cleared) THEN EmptyItems ELSE ts]

\* extract_optimized_prompt(intelligence_response)
extract_optimized_prompt(intelligence_response) ==
    IF intelligence_response.type # "dict"
       \/ "response" \notin DOMAIN intelligence_response.items
    THEN PyNone
    ELSE LET response_value == intelligence_response.items["response"]
         IN  IF response_value.type = "str"
             THEN LET parsed == json_loads(response_value.chars)
                  IN  IF parsed.exc = "JSONDecodeError" THEN PyNone
                      ELSE IF parsed.value.type = "dict"
                           THEN DictGet(parsed.value, "optimized_response", PyNone)
                           ELSE PyNone
             ELSE IF response_value.type = "dict"
                  THEN DictGet(response_value, "optimized_response", PyNone)
                  ELSE PyNone

\* What intelligence_profiler(...) does when called: raise, or return a value.
PROFILER_OUTCOMES ==
    { [raises |-> TRUE, value |-> PyNone],
      [raises |-> FALSE, value |-> PyNone],
      [raises |-> FALSE, value |-> PyDict(EmptyItems)],
      [raises |-> FALSE, value |-> PyDict([nope |-> PyInt(1)])],
      [raises |-> FALSE, value |-> PyDict([response |-> PyStr(JSON_OPT_X)])],
      [raises |-> FALSE,
       value |-> PyDict([response |-> PyDict([optimized_response |-> PyStr(OPTIMIZED_X)])])],
      [raises |-> FALSE, value |-> PyDict([response |-> PyStr(TEXT_NOT_JSON)])],
      [raises |-> FALSE, value |-> PyDict([response |-> PyStr(JSON_LIST)])],
      [raises |-> FALSE, value |-> PyDict([response |-> PyInt(5)])],
      [raises |-> FALSE, value |-> PyDict([response |-> PyDict(EmptyItems)])],
      [raises |-> FALSE, value |-> PyDict([response |-> PyDict([optimized_response |-> PyStr(<<>>)])])] }

\* the body of get_intelligence_profile: the profiler's value, None if it raises
ProfileBody(outcome) == IF outcome.raises THEN PyNone ELSE outcome.value

\* get_intelligence_profile(raw_prompt, job_title), through the cache
get_intelligence_profile(c, ts, t, raw_prompt, title, outcome) ==
    Wrapper(c, ts, t, CacheKey(raw_prompt, title), ProfileBody(outcome))

\* What openai.chat.completions.create(...) does: raise, or answer with a message
\* whose content is a str or None.
Completion(content) == [raises |-> FALSE, content |-> content]

CompletionError == [raises |-> TRUE, content |-> PyNone]

\* call_openai_api(...): the stripped content, None on any exception
\* (None.strip() raises AttributeError, which the handler catches too)
call_openai_api(outcome) ==
    IF outcome.raises THEN PyNone
    ELSE IF outcome.content.type # "str" THEN PyNone
         ELSE PyStr(Strip(outcome.content.chars))

\* raw_prompt of generate_question: the f-string, by its template and what fills it
QuestionPrompt(title, level) ==
    [template |-> "generate_question", difficulty |-> level, job_title |-> title]

\* raw_prompt of generate_feedback: the f-string, by its template and what fills it
FeedbackPrompt(question, answer) ==
    [template |-> "generate_feedback", question |-> question, answer |-> answer]

QUESTION_PREFIXES == <<PREFIX_OKAY, PREFIX_ONE, PREFIX_QUESTION>>

\* for prefix in [...]: if question.startswith(prefix): question = question[len(prefix):].strip()
RECURSIVE StripPrefixes(_, _)
StripPrefixes(question, prefixes) ==
    IF prefixes = <<>> THEN question
    ELSE LET prefix == Head(prefixes)
             cleaned == IF StartsWith(question, prefix)
                        THEN Strip(SubSeq(question, Len(prefix) + 1, Len(question)))
                        ELSE question
         IN  StripPrefixes(cleaned, Tail(prefixes))

\* generate_question(job_title, difficulty): the question, and the stores after the call
generate_question(c, ts, t, title, level, profiled, completed) ==
    LET profile == get_intelligence_profile(c, ts, t, QuestionPrompt(title, level), title, profiled)
        intelligence_response == profile.result
        optimized_prompt == extract_optimized_prompt(intelligence_response)
        question == call_openai_api(completed)
        text == IF ~Truthy(intelligence_response) THEN SORRY_PROFILER
                ELSE IF ~Truthy(optimized_prompt) THEN SORRY_OPTIMIZE_QUESTION
                ELSE IF ~Truthy(question) THEN SORRY_QUESTION
                ELSE StripPrefixes(question.chars, QUESTION_PREFIXES)
    IN  [question |-> text, profile |-> profile]

\* the first level of DIFFICULTY_LEVELS that occurs in the lower-cased text
ScanForLevel(text) ==
    LET found == {i \in 1..Len(DIFFICULTY_LEVELS) :
                    Contains(DIFFICULTY_LEVELS[i].chars, Lower(text))}
    IN  IF found = {} THEN DEFAULT_DIFFICULTY
        ELSE DIFFICULTY_LEVELS[CHOOSE i \in found : \A j \in found : i <= j]

\* the levels a recommendation is validated against
ValidRecommendation(recommendation) == InList(recommendation, DIFFICULTY_LEVELS)

\* the body of the inner try of generate_feedback: what it returns, or what it raises
ParseFeedback(json_response) ==
    LET loaded == json_loads(json_response.chars)
        response_data == loaded.value
        feedback == DictGet(response_data, "feedback", PyStr(NO_FEEDBACK))
        got == DictGet(response_data, "recommendation", DEFAULT_DIFFICULTY)
        recommendation == PyStr(Lower(got.chars))
        fails(exc) == [exc |-> exc, feedback |-> PyNone, recommendation |-> PyNone,
                       warned |-> FALSE]
    IN  IF loaded.exc # "" THEN fails(loaded.exc)
        ELSE IF response_data.type # "dict" THEN fails("AttributeError")
        ELSE IF got.type # "str" THEN fails("AttributeError")
        ELSE IF ~ValidRecommendation(recommendation)
             THEN [exc |-> "", feedback |-> feedback, recommendation |-> DEFAULT_DIFFICULTY,
                   warned |-> TRUE]
             ELSE [exc |-> "", feedback |-> feedback, recommendation |-> recommendation,
                   warned |-> FALSE]

\* except json.JSONDecodeError: the raw text is the feedback, the level is scanned for
FeedbackFallback(json_response) ==
    [exc |-> "", feedback |-> json_response,
     recommendation |-> ScanForLevel(json_response.chars), warned |-> TRUE]

\* the exceptions the model raises, all subclasses of Exception
EXCEPTIONS == {"JSONDecodeError", "AttributeError"}

\* except json.JSONDecodeError as e
InnerHandlerCatches(exc) == exc = "JSONDecodeError"

\* OuterHandlerCatches as `except json.JSONDecodeError` would catch
OuterHandlerCatchesJsonOnly(exc) == exc = "JSONDecodeError"

\* except Exception as e
OuterHandlerCatches(exc) == exc \in EXCEPTIONS

\* generate_feedback(question, answer): what it returns or raises, and the stores after
generate_feedback(c, ts, t, title, question, answer, profiled, completed) ==
    LET profile == get_intelligence_profile(c, ts, t, FeedbackPrompt(question, answer), title, profiled)
        intelligence_response == profile.result
        optimized_prompt == extract_optimized_prompt(intelligence_response)
        json_response == call_openai_api(completed)
        tried == ParseFeedback(json_response)
        parsed == IF InnerHandlerCatches(tried.exc) THEN FeedbackFallback(json_response)
                  ELSE tried
        returns(feedback, recommendation) ==
            [raised |-> "", feedback |-> feedback, recommendation |-> recommendation,
             profile |-> profile]
    IN  IF ~Truthy(intelligence_response)
        THEN returns(PyStr(SORRY_PROFILER), DEFAULT_DIFFICULTY)
        ELSE IF ~Truthy(optimized_prompt)
        THEN returns(PyStr(SORRY_OPTIMIZE_FEEDBACK), DEFAULT_DIFFICULTY)
        ELSE IF ~Truthy(json_response)
        THEN returns(PyStr(SORRY_FEEDBACK), DEFAULT_DIFFICULTY)
        ELSE IF parsed.exc = ""
        THEN returns(parsed.feedback, parsed.recommendation)
        ELSE IF OuterHandlerCatches(parsed.exc)
        THEN returns(PyStr(SORRY_FEEDBACK), DEFAULT_DIFFICULTY)
        ELSE [raised |-> parsed.exc, feedback |-> PyNone, recommendation |-> PyNone,
              profile |-> profile]

(***************************************************************************)
(* The history the claims are stated over.                                 *)
(***************************************************************************)
NoEntry == [exists |-> FALSE]

EntryOf(st, key) == IF key \in DOMAIN st THEN st[key] ELSE NoEntry

\* the history of stores, after a call of the wrapped function at time t
Remember(st, t, key, call) ==
    IF call.invoked THEN Put(st, key, [exists |-> TRUE, at |-> t, value |-> call.result])
    ELSE st

\* the record of one call of the wrapped function
CallRecord(st, t, key, call) ==
    [key |-> key, at |-> t, invoked |-> call.invoked, result |-> call.result,
     prior |-> EntryOf(st, key)]

(***************************************************************************)
(* The sample the actions draw from.                                       *)
(***************************************************************************)
JOB_TITLES == {JOB_DEV}

ANSWERS == {ANSWER_OK}

\* the arguments and the profiler outcomes of the calls made on the cache alone
CALL_PROMPTS == {QuestionPrompt(JOB_DEV, "easy"), FeedbackPrompt(QUESTION_TTL, ANSWER_OK)}

CALL_OUTCOMES ==
    { [raises |-> TRUE, value |-> PyNone],
      [raises |-> FALSE, value |-> PyDict([nope |-> PyInt(1)])],
      [raises |-> FALSE, value |-> PyDict([response |-> PyStr(JSON_OPT_X)])] }

\* what the completion API answers a feedback request with
FEEDBACK_REPLIES ==
    {CompletionError, Completion(PyNone), Completion(PyStr(CONTENT_BLANK))}
    \cup {Completion(PyStr(text)) :
            text \in {REPLY_HARDER, REPLY_HARDER_UPPER, REPLY_EASIER, REPLY_SAME, REPLY_MAYBE,
                      REPLY_SENIOR, REPLY_NO_REC, REPLY_NO_FEEDBACK, REPLY_REC_INT, REPLY_REC_NULL,
                      REPLY_FEEDBACK_INT, JSON_LIST, TEXT_EASIER, TEXT_HARDER_UPPER,
                      TEXT_SENIOR_JUNIOR, TEXT_MID, GOOD_ANSWER}}

(***************************************************************************)
(* Initial state: nothing cached, the session as app.py first creates it.  *)
(***************************************************************************)
Init ==
    /\ cache = EmptyItems
    /\ timestamps = EmptyItems
    /\ now = 0
    /\ stored = EmptyItems
    /\ lastCall = [key |-> PyNone]
    /\ lastOp = "init"
    /\ lastFeedback = [called |-> FALSE]
    /\ session_active = FALSE
    /\ question_num = 1
    /\ questions = <<>>
    /\ answers = <<>>
    /\ feedbacks = <<>>
    /\ job_title = <<>>
    /\ difficulty = "easy"
    /\ displayed = <<>>
    /\ lastSubmit = [clicked |-> FALSE]

(***************************************************************************)
(* The cache.                                                              *)
(***************************************************************************)
\* the clock advances
Tick ==
    /\ now < MaxTicks * TickSeconds
    /\ now' = now + TickSeconds
    /\ lastOp' = "tick"
    /\ UNCHANGED <<cache, timestamps, stored, lastCall, lastFeedback, lastSubmit, sessionVars>>

\* one call of get_intelligence_profile(raw_prompt, job_title)
ProfileCall ==
    \E raw_prompt \in CALL_PROMPTS, title \in JOB_TITLES, profiled \in CALL_OUTCOMES :
        \E call \in {get_intelligence_profile(cache, timestamps, now, raw_prompt, title,
                                               profiled)},
           key \in {CacheKey(raw_prompt, title)} :
            /\ cache' = call.cache
            /\ timestamps' = call.timestamps
            /\ stored' = Remember(stored, now, key, call)
            /\ lastCall' = CallRecord(stored, now, key, call)
            /\ lastOp' = "call"
            /\ UNCHANGED <<now, lastFeedback, lastSubmit, sessionVars>>

\* clear_cache()
ClearCache ==
    LET cleared == WrapperClearCache(cache, timestamps)
    IN  /\ cache' = cleared.cache
        /\ timestamps' = cleared.timestamps
        /\ lastOp' = "clear"
        /\ UNCHANGED <<now, stored, lastCall, lastFeedback, lastSubmit, sessionVars>>

CallsNext == ProfileCall \/ Tick

\* calls and clock advances only
SpecCalls == Init /\ [][CallsNext]_vars

CacheNext == ProfileCall \/ Tick \/ ClearCache

\* calls, clock advances and manual clears
SpecCache == Init /\ [][CacheNext]_vars

\* C1: a call of the wrapped function invokes the profiler exactly when no entry for
\* its key was stored less than CACHE_TTL seconds before it, the age counted from the
\* call that stored the entry (a hit does not renew it); a call that does not invoke
\* the profiler returns the stored value.
CallInvokesIffNoLiveEntry ==
    lastOp = "call" =>
        LET live == lastCall.prior.exists /\ lastCall.at - lastCall.prior.at < CACHE_TTL
        IN  /\ lastCall.invoked <=> ~live
            /\ ~lastCall.invoked => lastCall.result = lastCall.prior.value

\* a second call served from an entry stored after an earlier one expired, and a
\* call that invoked the profiler again at the age of exactly CACHE_TTL
HitInsideWindowSeen ==
    /\ lastOp = "call"
    /\ ~lastCall.invoked
    /\ lastCall.at - lastCall.prior.at = TickSeconds
    /\ lastCall.prior.at >= CACHE_TTL

\* C2: after clear_cache() the value store and the timestamp store are both empty.
ClearEmptiesBothStores ==
    lastOp = "clear" => DOMAIN cache = {} /\ DOMAIN timestamps = {}

(***************************************************************************)
(* generate_feedback, called with every sampled outcome of the services.   *)
(***************************************************************************)
FEEDBACK_QUESTIONS == {QUESTION_TTL}

InitFeedback ==
    /\ cache = EmptyItems
    /\ timestamps = EmptyItems
    /\ now = 0
    /\ stored = EmptyItems
    /\ lastCall = [key |-> PyNone]
    /\ lastOp = "init"
    /\ lastFeedback = [called |-> FALSE]
    /\ session_active = TRUE
    /\ question_num = 1
    /\ questions = <<>>
    /\ answers = <<>>
    /\ feedbacks = <<>>
    /\ job_title \in JOB_TITLES
    /\ difficulty = "easy"
    /\ displayed = <<>>
    /\ lastSubmit = [clicked |-> FALSE]

\* the record of one call of generate_feedback
FeedbackRecord(question, answer, completed, got) ==
    [called |-> TRUE, question |-> question, answer |-> answer,
     profile |-> got.profile.result, reply |-> completed,
     raised |-> got.raised, feedback |-> got.feedback, recommendation |-> got.recommendation]

\* one call of generate_feedback(question, answer)
FeedbackCall ==
    \E question \in FEEDBACK_QUESTIONS, answer \in ANSWERS,
       profiled \in PROFILER_OUTCOMES, completed \in FEEDBACK_REPLIES :
        \E got \in {generate_feedback(cache, timestamps, now, job_title, question, answer,
                                      profiled, completed)},
           key \in {CacheKey(FeedbackPrompt(question, answer), job_title)} :
            /\ cache' = got.profile.cache
            /\ timestamps' = got.profile.timestamps
            /\ stored' = Remember(stored, now, key, got.profile)
            /\ lastCall' = CallRecord(stored, now, key, got.profile)
            /\ lastFeedback' = FeedbackRecord(question, answer, completed, got)
            /\ lastOp' = "feedback"
            /\ UNCHANGED <<now, lastSubmit, sessionVars>>

FeedbackNext == FeedbackCall \/ ClearCache

SpecFeedback == InitFeedback /\ [][FeedbackNext]_vars

\* the completion text the last call of generate_feedback got, once stripped
ReplyText(fb) == call_openai_api(fb.reply)

\* the last call of generate_feedback got as far as a non-empty completion text
GotReply(fb) ==
    /\ fb.called
    /\ Truthy(fb.profile)
    /\ Truthy(extract_optimized_prompt(fb.profile))
    /\ Truthy(ReplyText(fb))

\* the completion text of the last call is a JSON object
ReplyIsObject(fb) ==
    /\ GotReply(fb)
    /\ json_loads(ReplyText(fb).chars).exc = ""
    /\ json_loads(ReplyText(fb).chars).value.type = "dict"

\* the completion text of the last call is not JSON
ReplyIsNotJson(fb) ==
    GotReply(fb) /\ json_loads(ReplyText(fb).chars).exc = "JSONDecodeError"

\* the recommendation field of a reply that is a JSON object
ReplyRecommendation(fb) ==
    DictGet(json_loads(ReplyText(fb).chars).value, "recommendation", PyNone)

\* the reply is a JSON object recommending one of easier/same/harder, in any case
ReplyRecommends(fb, word) ==
    /\ ReplyIsObject(fb)
    /\ ReplyRecommendation(fb).type = "str"
    /\ Lower(ReplyRecommendation(fb).chars) = word

\* C3: a parseable reply whose recommendation is easier, same or harder in any letter
\* case makes generate_feedback return that recommendation in lower case.
JsonRecommendationIsNormalized ==
    \A i \in 1..Len(RECOMMENDATIONS) :
        ReplyRecommends(lastFeedback, RECOMMENDATIONS[i].chars) =>
            /\ lastFeedback.raised = ""
            /\ lastFeedback.recommendation = RECOMMENDATIONS[i]

\* the keywords easier/same/harder that occur in a text, case ignored
KeywordsIn(text) ==
    {i \in 1..Len(RECOMMENDATIONS) : Contains(RECOMMENDATIONS[i].chars, Lower(text))}

\* C4: a reply that is not JSON is returned as the feedback, with the recommendation
\* a keyword (easier/same/harder) found in it, case ignored, and the default level
\* only when it holds none of them.
TextRecommendationIsRecovered ==
    ReplyIsNotJson(lastFeedback) =>
        LET text == ReplyText(lastFeedback).chars
        IN  /\ lastFeedback.raised = ""
            /\ lastFeedback.feedback = ReplyText(lastFeedback)
            /\ IF KeywordsIn(text) = {}
               THEN lastFeedback.recommendation = DEFAULT_DIFFICULTY
               ELSE \E i \in KeywordsIn(text) :
                        lastFeedback.recommendation = RECOMMENDATIONS[i]

APOLOGIES == {PyStr(SORRY_PROFILER), PyStr(SORRY_OPTIMIZE_FEEDBACK), PyStr(SORRY_FEEDBACK)}

\* a step of the last call failed: the profiler gave nothing, no optimized prompt
\* could be extracted, or the completion gave nothing
StepFailed(fb) == fb.called /\ ~GotReply(fb)

\* the reply is a JSON object whose feedback field is present and not a string
ReplyFeedbackNotText(fb) ==
    /\ ReplyIsObject(fb)
    /\ DictGet(json_loads(ReplyText(fb).chars).value, "feedback", PyStr(NO_FEEDBACK)).type # "str"

\* the reply is a JSON object whose recommendation field is present and not a string
ReplyRecommendationNotText(fb) ==
    /\ ReplyIsObject(fb)
    /\ "recommendation" \in DOMAIN json_loads(ReplyText(fb).chars).value.items
    /\ ReplyRecommendation(fb).type # "str"

\* C7: generate_feedback never raises; it returns a pair whose level is one of
\* DIFFICULTY_LEVELS; the pair is an apology with the level "Mid" whenever the
\* profiler, the extraction or the completion failed, and also when the reply is JSON
\* but no object, or an object whose recommendation is no string; the feedback is a
\* str for every reply but a JSON object that carries a feedback of another type.
FeedbackNeverRaises ==
    lastFeedback.called =>
        /\ lastFeedback.raised = ""
        /\ InList(lastFeedback.recommendation, DIFFICULTY_LEVELS)
        /\ StepFailed(lastFeedback) =>
              /\ lastFeedback.feedback \in APOLOGIES
              /\ lastFeedback.recommendation = DEFAULT_DIFFICULTY
        /\ ( /\ GotReply(lastFeedback)
             /\ ~ReplyIsNotJson(lastFeedback)
             /\ \/ ~ReplyIsObject(lastFeedback)
                \/ ReplyRecommendationNotText(lastFeedback) ) =>
              /\ lastFeedback.feedback = PyStr(SORRY_FEEDBACK)
              /\ lastFeedback.recommendation = DEFAULT_DIFFICULTY
        /\ ~ReplyFeedbackNotText(lastFeedback) => lastFeedback.feedback.type = "str"

\* a reply that is JSON but no object, answered with the apology
NonObjectReplySeen ==
    /\ GotReply(lastFeedback)
    /\ json_loads(ReplyText(lastFeedback).chars).exc = ""
    /\ json_loads(ReplyText(lastFeedback).chars).value.type = "list"
    /\ lastFeedback.feedback = PyStr(SORRY_FEEDBACK)

(***************************************************************************)
(* app.py: the session wizard.  Every user action reruns the script from   *)
(* the top, so an action is the run that handles it together with the run  *)
(* that st.rerun() starts.  The password gate is left out.                 *)
(***************************************************************************)
SENIORITY_LEVELS == {"Junior", "Mid", "Senior"}

\* {"Junior": "easy", "Mid": "medium", "Senior": "hard"}[seniority_input]
SeniorityDifficulty(seniority_input) ==
    CASE seniority_input = "Junior" -> "easy"
      [] seniority_input = "Mid" -> "medium"
      [] seniority_input = "Senior" -> "hard"

\* InterviewOpen with the bound off by one
InterviewOpenOneMore(n) == n <= TOTAL_QUESTIONS + 1

\* if st.session_state.question_num <= 5
InterviewOpen(n) == n <= TOTAL_QUESTIONS

\* AdjustDifficulty with the two inner branches the wrong way round
AdjustDifficultySwapped(level, recommendation) ==
    IF recommendation = PyStr(EASIER) /\ level # "easy"
    THEN (IF level = "medium" THEN "medium" ELSE "easy")
    ELSE IF recommendation = PyStr(HARDER) /\ level # "hard"
         THEN (IF level = "easy" THEN "hard" ELSE "medium")
         ELSE level

\* the difficulty after a recommendation: the if/elif after st.info
AdjustDifficulty(level, recommendation) ==
    IF recommendation = PyStr(EASIER) /\ level # "easy"
    THEN (IF level = "medium" THEN "easy" ELSE "medium")
    ELSE IF recommendation = PyStr(HARDER) /\ level # "hard"
         THEN (IF level = "easy" THEN "medium" ELSE "hard")
         ELSE level

\* RecordAnswer without the append to the feedbacks
RecordAnswerNoFeedback(qs, as, fs, n, question, answer, feedback) ==
    [questions |-> Append(qs, question), answers |-> Append(as, answer),
     feedbacks |-> fs, question_num |-> n + 1]

\* the three appends and the increment that record an answer
RecordAnswer(qs, as, fs, n, question, answer, feedback) ==
    [questions |-> Append(qs, question), answers |-> Append(as, answer),
     feedbacks |-> Append(fs, feedback), question_num |-> n + 1]

\* for i in range(5): the summary reads questions[i], answers[i], feedbacks[i]
SummaryReadsInBounds ==
    \A i \in 0..(TOTAL_QUESTIONS - 1) :
        i < Len(questions) /\ i < Len(answers) /\ i < Len(feedbacks)

\* what the services answer during a session
SESSION_PROFILES == {[raises |-> FALSE, value |-> PyDict([response |-> PyStr(JSON_OPT_X)])]}

QUESTION_REPLIES == {Completion(PyStr(CONTENT_PADDED)), Completion(PyStr(CONTENT_PREFIXED))}

SESSION_REPLIES == {Completion(PyStr(REPLY_HARDER)), Completion(PyStr(REPLY_EASIER))}

\* the Start Interview Prep button, and the run its st.rerun() starts, which renders
\* the first question
Start ==
    \E job_title_input \in JOB_TITLES \cup {<<>>}, seniority_input \in SENIORITY_LEVELS,
       profiled \in SESSION_PROFILES, completed \in QUESTION_REPLIES :
        /\ ~session_active
        /\ lastOp' = "start"
        /\ UNCHANGED <<now, lastFeedback, lastSubmit>>
        /\ IF job_title_input # <<>>
           THEN \E level \in {SeniorityDifficulty(seniority_input)} :
                \E asked \in {generate_question(cache, timestamps, now, job_title_input,
                                                level, profiled, completed)},
                   key \in {CacheKey(QuestionPrompt(job_title_input, level),
                                     job_title_input)} :
                    /\ session_active' = TRUE
                    /\ job_title' = job_title_input
                    /\ difficulty' = level
                    /\ question_num' = 1
                    /\ questions' = <<>>
                    /\ answers' = <<>>
                    /\ feedbacks' = <<>>
                    /\ displayed' = asked.question
                    /\ cache' = asked.profile.cache
                    /\ timestamps' = asked.profile.timestamps
                    /\ stored' = Remember(stored, now, key, asked.profile)
                    /\ lastCall' = CallRecord(stored, now, key, asked.profile)
           ELSE \* st.warning: nothing changes
                UNCHANGED <<session_active, job_title, difficulty, question_num, questions,
                            answers, feedbacks, displayed, cache, timestamps, stored, lastCall>>

\* the Start Over button, and the run its st.rerun() starts
StartOver ==
    /\ session_active
    /\ session_active' = FALSE
    /\ question_num' = 1
    /\ questions' = <<>>
    /\ answers' = <<>>
    /\ feedbacks' = <<>>
    /\ job_title' = <<>>
    /\ difficulty' = "easy"
    /\ displayed' = <<>>
    /\ lastOp' = "start over"
    /\ UNCHANGED <<cacheVars, stored, lastCall, lastFeedback, lastSubmit>>

\* the record of one click on Submit Answer
SubmitRecord(shown, sent, answer, accepted, recommendation) ==
    [clicked |-> TRUE, shown |-> shown, sent |-> sent, answer |-> answer,
     accepted |-> accepted, recommendation |-> recommendation,
     before |-> difficulty, num |-> question_num]

\* what a click on Submit Answer leaves behind when nothing is recorded: the run has
\* rendered `question`, and `call` was its last call of the profiler
NothingRecorded(question, answer, call) ==
    /\ displayed' = question
    /\ lastCall' = call
    /\ lastSubmit' = SubmitRecord(displayed, question, answer, FALSE, PyNone)
    /\ UNCHANGED <<difficulty, questions, answers, feedbacks, question_num>>

\* the Submit Answer button with `answer` in the text area: the run that handles the
\* click generates the question again (asked), then the feedback (got); st.rerun()
\* then starts the run that renders the next question (next) or the summary
Submit ==
    \E answer \in ANSWERS \cup {<<>>},
       profiled1 \in SESSION_PROFILES, completed1 \in QUESTION_REPLIES,
       profiled2 \in SESSION_PROFILES, completed2 \in SESSION_REPLIES,
       profiled3 \in SESSION_PROFILES, completed3 \in QUESTION_REPLIES :
        /\ session_active
        /\ InterviewOpen(question_num)
        /\ lastOp' = "submit"
        /\ UNCHANGED <<now, session_active, job_title>>
        /\ \E asked \in {generate_question(cache, timestamps, now, job_title, difficulty,
                                           profiled1, completed1)},
              key1 \in {CacheKey(QuestionPrompt(job_title, difficulty), job_title)} :
           \E stored1 \in {Remember(stored, now, key1, asked.profile)} :
            IF answer = <<>>
            THEN \* st.warning
                 /\ NothingRecorded(asked.question, answer,
                                    CallRecord(stored, now, key1, asked.profile))
                 /\ cache' = asked.profile.cache
                 /\ timestamps' = asked.profile.timestamps
                 /\ stored' = stored1
                 /\ UNCHANGED lastFeedback
            ELSE \E got \in {generate_feedback(asked.profile.cache, asked.profile.timestamps,
                                               now, job_title, asked.question, answer,
                                               profiled2, completed2)},
                    key2 \in {CacheKey(FeedbackPrompt(asked.question, answer), job_title)} :
                 \E stored2 \in {Remember(stored1, now, key2, got.profile)} :
                  /\ lastFeedback' = FeedbackRecord(asked.question, answer, completed2, got)
                  /\ IF got.raised # ""
                     THEN \* the exception ends the run
                          /\ NothingRecorded(asked.question, answer,
                                             CallRecord(stored1, now, key2, got.profile))
                          /\ cache' = got.profile.cache
                          /\ timestamps' = got.profile.timestamps
                          /\ stored' = stored2
                     ELSE \E level \in {AdjustDifficulty(difficulty, got.recommendation)},
                             recorded \in {RecordAnswer(questions, answers, feedbacks,
                                                        question_num, asked.question, answer,
                                                        got.feedback)} :
                          /\ difficulty' = level
                          /\ questions' = recorded.questions
                          /\ answers' = recorded.answers
                          /\ feedbacks' = recorded.feedbacks
                          /\ question_num' = recorded.question_num
                          /\ lastSubmit' = SubmitRecord(displayed, asked.question, answer, TRUE,
                                                        got.recommendation)
                          /\ IF InterviewOpen(recorded.question_num)
                             THEN \E next \in {generate_question(
                                                   got.profile.cache, got.profile.timestamps,
                                                   now, job_title, level, profiled3, completed3)},
                                     key3 \in {CacheKey(QuestionPrompt(job_title, level),
                                                        job_title)} :
                                  /\ displayed' = next.question
                                  /\ cache' = next.profile.cache
                                  /\ timestamps' = next.profile.timestamps
                                  /\ stored' = Remember(stored2, now, key3, next.profile)
                                  /\ lastCall' = CallRecord(stored2, now, key3, next.profile)
                             ELSE \* the summary
                                  /\ displayed' = <<>>
                                  /\ cache' = got.profile.cache
                                  /\ timestamps' = got.profile.timestamps
                                  /\ stored' = stored2
                                  /\ lastCall' = CallRecord(stored1, now, key2, got.profile)

SessionNext == Start \/ StartOver \/ Submit

\* a session, with both services answering and inside one TTL window
SpecSession == Init /\ [][SessionNext]_vars

Next == ProfileCall \/ Tick \/ ClearCache \/ FeedbackCall \/ Start \/ StartOver \/ Submit

\* everything together
Spec == Init /\ [][Next]_vars

(***************************************************************************)
(* The difficulty step of the submit handler, given every recommendation.  *)
(***************************************************************************)
STEP_RECOMMENDATIONS ==
    {PyStr(EASIER), PyStr(SAME), PyStr(HARDER), PyStr(UPPER_HARDER),
     PyStr(JUNIOR), PyStr(MID), PyStr(SENIOR)}

STEP_FEEDBACKS == {PyStr(GOOD_ANSWER), PyStr(SORRY_FEEDBACK)}

InitStep ==
    /\ cache = EmptyItems
    /\ timestamps = EmptyItems
    /\ now = 0
    /\ stored = EmptyItems
    /\ lastCall = [key |-> PyNone]
    /\ lastOp = "init"
    /\ lastFeedback = [called |-> FALSE]
    /\ session_active = TRUE
    /\ question_num = 1
    /\ questions = <<>>
    /\ answers = <<>>
    /\ feedbacks = <<>>
    /\ job_title = JOB_DEV
    /\ difficulty \in {"easy", "medium", "hard"}
    /\ displayed = QUESTION_TTL
    /\ lastSubmit = [clicked |-> FALSE]

\* the submit handler from the line after generate_feedback returned: the difficulty
\* step, the appends and the increment
StepSubmit ==
    \E recommendation \in STEP_RECOMMENDATIONS, feedback \in STEP_FEEDBACKS :
        \E recorded \in {RecordAnswer(questions, answers, feedbacks, question_num,
                                      displayed, ANSWER_OK, feedback)} :
            /\ session_active
            /\ InterviewOpen(question_num)
            /\ difficulty' = AdjustDifficulty(difficulty, recommendation)
            /\ questions' = recorded.questions
            /\ answers' = recorded.answers
            /\ feedbacks' = recorded.feedbacks
            /\ question_num' = recorded.question_num
            /\ lastSubmit' = SubmitRecord(displayed, displayed, ANSWER_OK, TRUE, recommendation)
            /\ lastOp' = "submit"
            /\ UNCHANGED <<cacheVars, stored, lastCall, lastFeedback, session_active,
                           job_title, displayed>>

SpecStep == InitStep /\ [][StepSubmit]_vars

\* one notch harder, one notch easier
HarderThan == [easy |-> "medium", medium |-> "hard", hard |-> "hard"]

EasierThan == [easy |-> "easy", medium |-> "easy", hard |-> "medium"]

\* C6: a recommendation "harder" moves the difficulty one notch up and leaves "hard"
\* alone, "easier" moves it one notch down and leaves "easy" alone, any other value
\* leaves it unchanged; the difficulty is always easy, medium or hard.
DifficultyStepIsOneNotch ==
    /\ difficulty \in {"easy", "medium", "hard"}
    /\ (lastOp = "submit" /\ lastSubmit.accepted) =>
          difficulty = IF lastSubmit.recommendation = PyStr(HARDER)
                       THEN HarderThan[lastSubmit.before]
                       ELSE IF lastSubmit.recommendation = PyStr(EASIER)
                            THEN EasierThan[lastSubmit.before]
                            ELSE lastSubmit.before

\* "harder" at medium moved the difficulty to hard
HarderFromMediumSeen ==
    /\ lastOp = "submit"
    /\ lastSubmit.accepted
    /\ lastSubmit.recommendation = PyStr(HARDER)
    /\ lastSubmit.before = "medium"
    /\ difficulty = "hard"

(***************************************************************************)
(* The session.                                                            *)
(***************************************************************************)
\* C5: when the reply recommends "harder" and the difficulty is not hard, the submit
\* that increments the question counter moves the difficulty one notch harder, and
\* likewise one notch easier for "easier" when it is not easy.
RecommendationMovesDifficulty ==
    (lastOp = "submit" /\ lastSubmit.accepted) =>
        /\ question_num = lastSubmit.num + 1
        /\ (ReplyRecommends(lastFeedback, HARDER) /\ lastSubmit.before # "hard") =>
              difficulty = HarderThan[lastSubmit.before]
        /\ (ReplyRecommends(lastFeedback, EASIER) /\ lastSubmit.before # "easy") =>
              difficulty = EasierThan[lastSubmit.before]

\* C8, as stated: the question index is always in 1..5.
QuestionIndexWithinFive ==
    question_num \in 1..TOTAL_QUESTIONS

\* C8, amended: the question index is always in 1..6, and it is 6 (the session is
\* Complete) exactly when the session is active with five answers submitted.
QuestionIndexWithinSix ==
    /\ question_num \in 1..(TOTAL_QUESTIONS + 1)
    /\ (session_active /\ question_num > TOTAL_QUESTIONS) <=> (Len(answers) = TOTAL_QUESTIONS)

\* the session is Complete
SessionCompleteSeen ==
    session_active /\ question_num = TOTAL_QUESTIONS + 1 /\ lastOp = "submit"

\* C9: the three lists have the length question_num - 1; start and start over leave
\* them empty with question_num 1; an accepted submit adds one element to each and
\* one to question_num; a submit with an empty answer changes none of them; when the
\* summary is rendered each list holds five entries and its reads are in bounds.
ListsTrackQuestionNumber ==
    /\ Len(questions) = question_num - 1
    /\ Len(answers) = question_num - 1
    /\ Len(feedbacks) = question_num - 1
    /\ lastOp \in {"start", "start over"} => question_num = 1
    /\ lastOp = "submit" =>
          IF lastSubmit.accepted
          THEN /\ question_num = lastSubmit.num + 1
               /\ questions[lastSubmit.num] = lastSubmit.sent
               /\ answers[lastSubmit.num] = lastSubmit.answer
               /\ feedbacks[lastSubmit.num] = lastFeedback.feedback
          ELSE question_num = lastSubmit.num
    /\ (session_active /\ ~InterviewOpen(question_num)) =>
          /\ SummaryReadsInBounds
          /\ Len(questions) = TOTAL_QUESTIONS
          /\ Len(answers) = TOTAL_QUESTIONS
          /\ Len(feedbacks) = TOTAL_QUESTIONS

\* the summary is rendered with five entries in each list
SummaryRenderedSeen ==
    /\ session_active
    /\ ~InterviewOpen(question_num)
    /\ Len(questions) = TOTAL_QUESTIONS
    /\ Len(feedbacks) = TOTAL_QUESTIONS

\* C10: the question sent to generate_feedback and appended to the questions is the
\* question that was on the screen when the answer was written.
SubmittedQuestionWasShown ==
    (lastOp = "submit" /\ lastSubmit.accepted) =>
        /\ lastSubmit.sent = lastSubmit.shown
        /\ questions[lastSubmit.num] = lastSubmit.shown
====
